---- MODULE Spec2Model ----
(***************************************************************************)
(* getk: the concurrent fetch-and-persist pipeline of main() -- the job    *)
(* queue, the ticker rate limiter, the retry loop with exponential         *)
(* backoff, the record transform and InsertCandlesticks / EnsureTable.     *)
(***************************************************************************)
EXTENDS Integers, Sequences, FiniteSets, TLC

----------------------------------------------------------------------------
(* Bounds of the model *)

\* largest configured worker count (acc.Threads)
NumWorkers == 2
\* most jobs in one run: len(appCfg.Symbols) * len(dates)
MaxJobs == 2
\* clock units in one ticker period (time.Second / rps)
Interval == 2
\* runs of the pipeline against one store
MaxRuns == 2

\* retry configurations tried: attempts up to MaxCfgAttempts, delays up to MaxCfgDelay
MaxCfgAttempts == 4
MaxCfgDelay == 4
\* longest list of raw points tried
MaxPoints == 2

(* Program constants: retryCfg *)
MaxAttempts == 3
BaseDelayMS == 500
MaxDelayMS == 2000

----------------------------------------------------------------------------
(* Values *)

NoJob == [symbol |-> <<>>, date |-> 0, pos |-> 0]
\* a *decimal.Decimal field: Nil, or Dec(v) pointing at the value v
Nil == <<>>
Dec(v) == <<v>>

Min(a, b) == IF a < b THEN a ELSE b

RECURSIVE SumSeq(_)
SumSeq(q) == IF q = <<>> THEN 0 ELSE Head(q) + SumSeq(Tail(q))

RECURSIVE Pow2(_)
Pow2(n) == IF n <= 0 THEN 1 ELSE 2 * Pow2(n - 1)

\* symbols are strings, kept as sequences of characters
SymAAPL == <<"A", "A", "P", "L", ".", "U", "S">>
Sym0700 == <<"0", "7", "0", "0", ".", "H", "K">>
SymbolPool == {SymAAPL, Sym0700}
\* further symbols a configuration may name: lower case, and a class share
SymLower == <<"a", "a", "p", "l", ".", "u", "s">>
SymBRKB == <<"B", "R", "K", ".", "B", ".", "U", "S">>
NamePool == SymbolPool \cup {SymLower, SymBRKB}

\* the configured lists are the prefixes of these two: the empty list, lists of
\* distinct entries and, from three entries on, lists that name one twice
ConfigSymbols == <<SymAAPL, Sym0700, SymAAPL>>
ConfigDates == <<1, 2, 1>>

Prefixes(s) == {SubSeq(s, 1, n) : n \in 0..Len(s)}

----------------------------------------------------------------------------
(* safeTableName *)

ToLowerChar(c) ==
    CASE c = "A" -> "a" [] c = "B" -> "b" [] c = "C" -> "c" [] c = "D" -> "d"
      [] c = "E" -> "e" [] c = "F" -> "f" [] c = "G" -> "g" [] c = "H" -> "h"
      [] c = "I" -> "i" [] c = "J" -> "j" [] c = "K" -> "k" [] c = "L" -> "l"
      [] c = "M" -> "m" [] c = "N" -> "n" [] c = "O" -> "o" [] c = "P" -> "p"
      [] c = "Q" -> "q" [] c = "R" -> "r" [] c = "S" -> "s" [] c = "T" -> "t"
      [] c = "U" -> "u" [] c = "V" -> "v" [] c = "W" -> "w" [] c = "X" -> "x"
      [] c = "Y" -> "y" [] c = "Z" -> "z" [] OTHER -> c

ToLower(s) == [i \in 1..Len(s) |-> ToLowerChar(s[i])]

\* strings.Split(s, "."): the pieces between the dots
RECURSIVE SplitDot(_)
SplitDot(s) ==
    IF \A i \in 1..Len(s) : s[i] # "."
    THEN <<s>>
    ELSE LET k == CHOOSE i \in 1..Len(s) :
                      s[i] = "." /\ \A j \in 1..(i - 1) : s[j] # "."
         IN <<SubSeq(s, 1, k - 1)>> \o SplitDot(SubSeq(s, k + 1, Len(s)))

safeTableName(symbol) ==
    LET base == SplitDot(symbol)[1]
        region == SplitDot(symbol)[2]
    IN ToLower(base) \o <<"_">> \o ToLower(region)

TableNames == {safeTableName(s) : s \in NamePool}

----------------------------------------------------------------------------
(* The remote quote service: the raw points of one query for a date.       *)
(* An optional field is Dec(v) or Nil (absent).                            *)

RawPoint(ts, o, c, h, l, v, t) ==
    [Timestamp |-> ts, Open |-> o, Close |-> c, High |-> h, Low |-> l,
     Volume |-> v, Turnover |-> t]

\* date 2 answers a complete point at second 1, a point without turnover at
\* second 2 and a point without high at second 3; any other date answers a
\* complete point at second 2 (with other prices) and a point without open
DefaultRemote(date) ==
    IF date = 2
    THEN << RawPoint(1, Dec(10), Dec(11), Dec(12), Dec(9), 100, Dec(7)),
            RawPoint(2, Dec(20), Dec(21), Dec(22), Dec(19), 200, Nil),
            RawPoint(3, Dec(30), Dec(31), Nil, Dec(29), 300, Dec(9)) >>
    ELSE << RawPoint(2, Dec(40), Dec(41), Dec(42), Dec(39), 400, Dec(8)),
            RawPoint(4, Nil, Dec(51), Dec(52), Dec(49), 500, Dec(6)) >>

\* d.InexactFloat64() on the model's decimals, which are small integers: the
\* float64 of the value d points at
InexactFloat64(d) == d[1]
\* time.Unix(sec, 0): the instant with that many seconds and no nanoseconds
TimeUnix(sec) == [sec |-> sec, nsec |-> 0]

\* a transform that also drops the points without turnover
TransformStrict(symbol, candlesticks) ==
    LET full == SelectSeq(candlesticks,
                    LAMBDA c : c.Open # Nil /\ c.Close # Nil /\ c.High # Nil
                               /\ c.Low # Nil /\ c.Turnover # Nil)
    IN [i \in 1..Len(full) |->
           [Symbol |-> symbol, Timestamp |-> TimeUnix(full[i].Timestamp),
            Open |-> InexactFloat64(full[i].Open), Close |-> InexactFloat64(full[i].Close),
            High |-> InexactFloat64(full[i].High), Low |-> InexactFloat64(full[i].Low),
            Volume |-> full[i].Volume, Turnover |-> InexactFloat64(full[i].Turnover)]]

\* main, the record transform: candlesticks -> records
RECURSIVE Transform(_, _)
Transform(symbol, candlesticks) ==
    IF candlesticks = <<>> THEN <<>>
    ELSE LET c == Head(candlesticks)
             rest == Transform(symbol, Tail(candlesticks))
         IN IF c.Open = Nil \/ c.Close = Nil \/ c.High = Nil \/ c.Low = Nil
            THEN rest
            ELSE << [Symbol |-> symbol,
                     Timestamp |-> TimeUnix(c.Timestamp),
                     Open |-> InexactFloat64(c.Open),
                     Close |-> InexactFloat64(c.Close),
                     High |-> InexactFloat64(c.High),
                     Low |-> InexactFloat64(c.Low),
                     Volume |-> c.Volume,
                     Turnover |-> IF c.Turnover # Nil
                                  THEN InexactFloat64(c.Turnover) ELSE 0] >>
                 \o rest

\* a backoff that does not grow with the attempt
BackoffFlat(baseDelay, maxDelay, attempt) ==
    IF baseDelay > maxDelay THEN maxDelay ELSE baseDelay

\* a backoff without the cap
BackoffUncapped(baseDelay, maxDelay, attempt) ==
    baseDelay * Pow2(attempt - 1)

\* main, the backoff before the retry that follows failed attempt `attempt`
Backoff(baseDelay, maxDelay, attempt) ==
    LET base == baseDelay * Pow2(attempt - 1)
    IN IF base > maxDelay THEN maxDelay ELSE base

----------------------------------------------------------------------------
(* State *)

VARIABLES
    symbols, dates, threads,      \* appCfg.Symbols, dates, acc.Threads
    retryCfg,                     \* retryCfg
    remote,                       \* what the quote service answers for a date
    storeUp,                      \* the database server accepts connections
    mainpc, ensureIdx,            \* main's position, the EnsureTable loop index
    tableExists, rows,            \* the store: created tables and their rows
    ensureErr,                    \* symbols whose EnsureTable returned an error
    jobs, totalTasks,             \* the closed job channel and its size
    currentTask, successCount, failCount,
    tickBuf, phase, sinceAdmit,   \* limiter.C and the clock
    ticks,                        \* the ticks sent on limiter.C so far
    pc, job, attempt, backoff, records,   \* each worker goroutine
    taken, succInc, failInc,      \* history per queue position
    admits, trail, sleeps,        \* history of a worker's current job
    handed,                       \* the progress numbers printed so far
    run, prevRows, prevFailed     \* the run number; the rows at the end of the
                                  \* run before, and whether it counted a failure

cfgVars == <<symbols, dates, threads, retryCfg, remote, storeUp>>
storeVars == <<tableExists, rows>>
clockVars == <<phase, sinceAdmit, ticks>>
counterVars == <<currentTask, successCount, failCount>>
jobHist == <<taken, succInc, failInc>>
runVars == <<run, prevRows, prevFailed>>

vars == <<symbols, dates, threads, retryCfg, remote, storeUp, mainpc, ensureIdx, tableExists, rows,
          ensureErr, jobs, totalTasks, currentTask, successCount, failCount,
          tickBuf, phase, sinceAdmit, ticks, pc, job, attempt, backoff, records,
          taken, succInc, failInc, admits, trail, sleeps, handed,
          run, prevRows, prevFailed>>

Workers == 1..NumWorkers
Started == 1..threads

\* the configurations a run may be started with
Configs ==
    {c \in Prefixes(ConfigSymbols) \X Prefixes(ConfigDates) :
        Len(c[1]) * Len(c[2]) <= MaxJobs}

\* main, the start of a run: nothing is queued, counted or started yet
StartOfRun ==
    /\ mainpc = "load"
    /\ ensureIdx = 1
    /\ ensureErr = {}
    /\ jobs = <<>>
    /\ totalTasks = 0
    /\ currentTask = 0
    /\ successCount = 0
    /\ failCount = 0
    /\ tickBuf = 0
    /\ phase = 0
    /\ sinceAdmit = Interval
    /\ ticks = 0
    /\ pc = [w \in Workers |-> "off"]
    /\ job = [w \in Workers |-> NoJob]
    /\ attempt = [w \in Workers |-> 0]
    /\ backoff = [w \in Workers |-> 0]
    /\ records = [w \in Workers |-> <<>>]
    /\ taken = <<>>
    /\ succInc = <<>>
    /\ failInc = <<>>
    /\ admits = [w \in Workers |-> 0]
    /\ trail = [w \in Workers |-> <<>>]
    /\ sleeps = [w \in Workers |-> <<>>]
    /\ handed = <<>>

\* an empty store, before the first run
FreshStore ==
    /\ tableExists = {}
    /\ rows = [t \in TableNames |-> {}]
    /\ run = 1
    /\ prevRows = [t \in TableNames |-> {}]
    /\ prevFailed = FALSE

Dates == {ConfigDates[i] : i \in 1..Len(ConfigDates)}

Init ==
    /\ \E c \in Configs : symbols = c[1] /\ dates = c[2]
    /\ threads \in 1..NumWorkers
    /\ retryCfg = [MaxAttempts |-> MaxAttempts, BaseDelayMS |-> BaseDelayMS,
                   MaxDelayMS |-> MaxDelayMS]
    /\ remote = [d \in Dates |-> DefaultRemote(d)]
    /\ storeUp = TRUE
    /\ FreshStore
    /\ StartOfRun

----------------------------------------------------------------------------
(* main: startup *)

\* appconfig.Load, ParseDates, dbconn.Load and dbconn.Open return nil errors.
\* dbconn.Open is sql.Open, which validates its arguments and connects to
\* nothing: it succeeds whether or not the server is reachable.
LoadOk ==
    /\ mainpc = "load"
    /\ mainpc' = "ensure"
    /\ UNCHANGED <<cfgVars, ensureIdx, storeVars, ensureErr, jobs, totalTasks,
                   counterVars, tickBuf, clockVars, pc, job, attempt, backoff,
                   records, jobHist, admits, trail, sleeps, handed, runVars>>

\* one of them returns an error: log.Fatalf, exit status 1
LoadFatal ==
    /\ mainpc = "load"
    /\ mainpc' = "fatal"
    /\ UNCHANGED <<cfgVars, ensureIdx, storeVars, ensureErr, jobs, totalTasks,
                   counterVars, tickBuf, clockVars, pc, job, attempt, backoff,
                   records, jobHist, admits, trail, sleeps, handed, runVars>>

\* EnsureTable returns nil: CREATE TABLE IF NOT EXISTS
EnsureTableOk ==
    /\ mainpc = "ensure"
    /\ storeUp
    /\ ensureIdx <= Len(symbols)
    /\ tableExists' = tableExists \cup {safeTableName(symbols[ensureIdx])}
    /\ ensureIdx' = ensureIdx + 1
    /\ UNCHANGED <<cfgVars, mainpc, rows, ensureErr, jobs, totalTasks,
                   counterVars, tickBuf, clockVars, pc, job, attempt, backoff,
                   records, jobHist, admits, trail, sleeps, handed, runVars>>

\* EnsureTable returns an error: main prints it and goes on to the next symbol
EnsureTableErr ==
    /\ mainpc = "ensure"
    /\ ensureIdx <= Len(symbols)
    /\ ensureErr' = ensureErr \cup {symbols[ensureIdx]}
    /\ ensureIdx' = ensureIdx + 1
    /\ UNCHANGED <<cfgVars, mainpc, storeVars, jobs, totalTasks, counterVars,
                   tickBuf, clockVars, pc, job, attempt, backoff, records,
                   jobHist, admits, trail, sleeps, handed, runVars>>

\* LoadLongportAccount, os.WriteFile, config.New and quote.NewFromCfg return
\* nil errors
QuoteContextOk ==
    /\ mainpc = "ensure"
    /\ ensureIdx > Len(symbols)
    /\ mainpc' = "pool"
    /\ UNCHANGED <<cfgVars, ensureIdx, storeVars, ensureErr, jobs, totalTasks,
                   counterVars, tickBuf, clockVars, pc, job, attempt, backoff,
                   records, jobHist, admits, trail, sleeps, handed, runVars>>

\* one of them returns an error: log.Fatalf, exit status 1
QuoteContextFatal ==
    /\ mainpc = "ensure"
    /\ ensureIdx > Len(symbols)
    /\ mainpc' = "fatal"
    /\ UNCHANGED <<cfgVars, ensureIdx, storeVars, ensureErr, jobs, totalTasks,
                   counterVars, tickBuf, clockVars, pc, job, attempt, backoff,
                   records, jobHist, admits, trail, sleeps, handed, runVars>>

\* the job queue: all symbols x dates, symbol-major
RECURSIVE BuildJobs(_, _, _)
BuildJobs(syms, ds, n) ==
    IF syms = <<>> THEN <<>>
    ELSE [i \in 1..Len(ds) |-> [symbol |-> Head(syms), date |-> ds[i], pos |-> n + i]]
         \o BuildJobs(Tail(syms), ds, n + Len(ds))

\* a main that treats an empty task set as a fatal configuration error
StartPoolRejectEmpty ==
    /\ mainpc = "pool"
    /\ totalTasks' = Len(symbols) * Len(dates)
    /\ jobs' = BuildJobs(symbols, dates, 0)
    /\ taken' = [p \in 1..Len(jobs') |-> 0]
    /\ succInc' = [p \in 1..Len(jobs') |-> 0]
    /\ failInc' = [p \in 1..Len(jobs') |-> 0]
    /\ tickBuf' = 0
    /\ phase' = 0
    /\ IF totalTasks' = 0
          THEN mainpc' = "fatal" /\ UNCHANGED pc
          ELSE /\ pc' = [w \in Workers |-> IF w \in Started THEN "range" ELSE "off"]
               /\ mainpc' = "wait"
    /\ UNCHANGED <<cfgVars, ensureIdx, storeVars, ensureErr, counterVars,
                   sinceAdmit, ticks, job, attempt, backoff, records, admits,
                   trail, sleeps, handed, runVars>>

\* main: fill and close the job channel, create the limiter, start the workers
StartPool ==
    /\ mainpc = "pool"
    /\ totalTasks' = Len(symbols) * Len(dates)
    /\ jobs' = BuildJobs(symbols, dates, 0)
    /\ taken' = [p \in 1..Len(jobs') |-> 0]
    /\ succInc' = [p \in 1..Len(jobs') |-> 0]
    /\ failInc' = [p \in 1..Len(jobs') |-> 0]
    /\ tickBuf' = 0
    /\ phase' = 0
    /\ pc' = [w \in Workers |-> IF w \in Started THEN "range" ELSE "off"]
    /\ mainpc' = "wait"
    /\ UNCHANGED <<cfgVars, ensureIdx, storeVars, ensureErr, counterVars,
                   sinceAdmit, ticks, job, attempt, backoff, records, admits,
                   trail, sleeps, handed, runVars>>

\* wg.Wait returns, the summary is printed
Summary ==
    /\ mainpc = "wait"
    /\ \A w \in Started : pc[w] = "done"
    /\ mainpc' = "done"
    /\ UNCHANGED <<cfgVars, ensureIdx, storeVars, ensureErr, jobs, totalTasks,
                   counterVars, tickBuf, clockVars, pc, job, attempt, backoff,
                   records, jobHist, admits, trail, sleeps, handed, runVars>>

----------------------------------------------------------------------------
(* The limiter: time.NewTicker(interval). limiter.C holds at most one tick; *)
(* a tick that finds it full is dropped.                                    *)

\* the send of a ticker that was stopped before the workers started
SendTickStopped(buf) == buf

\* the ticker's send on limiter.C
SendTick(buf) == 1

\* the ticker fires; how much time went by is left open
TickerTick ==
    /\ mainpc = "wait"
    /\ tickBuf = 0
    /\ tickBuf' = SendTick(tickBuf)
    /\ ticks' = ticks + (tickBuf' - tickBuf)
    /\ UNCHANGED <<cfgVars, mainpc, ensureIdx, storeVars, ensureErr, jobs,
                   totalTasks, counterVars, phase, sinceAdmit, pc, job, attempt,
                   backoff, records, jobHist, admits, trail, sleeps, handed,
                   runVars>>

\* one clock unit goes by; the ticker fires every Interval units
Advance ==
    /\ mainpc = "wait"
    /\ phase' = (phase + 1) % Interval
    /\ sinceAdmit' = Min(sinceAdmit + 1, Interval)
    /\ tickBuf' = IF phase' = 0 THEN SendTick(tickBuf) ELSE tickBuf
    /\ ticks' = ticks + (tickBuf' - tickBuf)
    /\ UNCHANGED <<cfgVars, mainpc, ensureIdx, storeVars, ensureErr, jobs,
                   totalTasks, counterVars, pc, job, attempt, backoff,
                   records, jobHist, admits, trail, sleeps, handed, runVars>>

----------------------------------------------------------------------------
(* The worker goroutine *)

Bump(f, p) == [f EXCEPT ![p] = @ + 1]

\* a receive that leaves the job in the channel the first time it is handed out
DequeueTwice(w) ==
    /\ pc[w] = "range"
    /\ jobs # <<>>
    /\ job' = [job EXCEPT ![w] = Head(jobs)]
    /\ jobs' = IF taken[Head(jobs).pos] = 0 THEN jobs ELSE Tail(jobs)
    /\ taken' = Bump(taken, Head(jobs).pos)
    /\ admits' = [admits EXCEPT ![w] = 0]
    /\ trail' = [trail EXCEPT ![w] = <<>>]
    /\ sleeps' = [sleeps EXCEPT ![w] = <<>>]
    /\ attempt' = [attempt EXCEPT ![w] = 0]
    /\ pc' = [pc EXCEPT ![w] = "admit"]
    /\ UNCHANGED <<cfgVars, mainpc, ensureIdx, storeVars, ensureErr,
                   totalTasks, counterVars, tickBuf, clockVars, backoff,
                   records, succInc, failInc, handed, runVars>>

\* for j := range jobs -- the next job of the channel
Dequeue(w) ==
    /\ pc[w] = "range"
    /\ jobs # <<>>
    /\ job' = [job EXCEPT ![w] = Head(jobs)]
    /\ jobs' = Tail(jobs)
    /\ taken' = Bump(taken, Head(jobs).pos)
    /\ admits' = [admits EXCEPT ![w] = 0]
    /\ trail' = [trail EXCEPT ![w] = <<>>]
    /\ sleeps' = [sleeps EXCEPT ![w] = <<>>]
    /\ attempt' = [attempt EXCEPT ![w] = 0]
    /\ pc' = [pc EXCEPT ![w] = "admit"]
    /\ UNCHANGED <<cfgVars, mainpc, ensureIdx, storeVars, ensureErr,
                   totalTasks, counterVars, tickBuf, clockVars, backoff,
                   records, succInc, failInc, handed, runVars>>

\* for j := range jobs -- the channel is closed and empty: wg.Done
Exit(w) ==
    /\ pc[w] = "range"
    /\ jobs = <<>>
    /\ pc' = [pc EXCEPT ![w] = "done"]
    /\ job' = [job EXCEPT ![w] = NoJob]
    /\ admits' = [admits EXCEPT ![w] = 0]
    /\ trail' = [trail EXCEPT ![w] = <<>>]
    /\ sleeps' = [sleeps EXCEPT ![w] = <<>>]
    /\ UNCHANGED <<cfgVars, mainpc, ensureIdx, storeVars, ensureErr, jobs,
                   totalTasks, counterVars, tickBuf, clockVars, attempt,
                   backoff, records, jobHist, handed, runVars>>

\* a gate that lets a worker through on a pending tick and leaves the tick
\* in place for the next worker
AdmitShared(w) ==
    /\ pc[w] = "admit"
    /\ tickBuf = 1
    /\ sinceAdmit' = 0
    /\ admits' = [admits EXCEPT ![w] = @ + 1]
    /\ pc' = [pc EXCEPT ![w] = "progress"]
    /\ UNCHANGED <<cfgVars, mainpc, ensureIdx, storeVars, ensureErr, jobs,
                   totalTasks, counterVars, tickBuf, phase, ticks, job, attempt,
                   backoff, records, jobHist, trail, sleeps, handed, runVars>>

\* <-limiter.C
Admit(w) ==
    /\ pc[w] = "admit"
    /\ tickBuf = 1
    /\ tickBuf' = 0
    /\ sinceAdmit' = 0
    /\ admits' = [admits EXCEPT ![w] = @ + 1]
    /\ pc' = [pc EXCEPT ![w] = "progress"]
    /\ UNCHANGED <<cfgVars, mainpc, ensureIdx, storeVars, ensureErr, jobs,
                   totalTasks, counterVars, phase, ticks, job, attempt, backoff,
                   records, jobHist, trail, sleeps, handed, runVars>>

\* cur := currentTask + 1; currentTask = cur without atomicity: the number a
\* worker prints may be the one another worker printed just before
ProgressRacy(w) ==
    /\ pc[w] = "progress"
    /\ currentTask' = currentTask + 1
    /\ \E cur \in {currentTask' - 1, currentTask'} :
          cur >= 1 /\ handed' = Append(handed, cur)
    /\ attempt' = [attempt EXCEPT ![w] = 1]
    /\ pc' = [pc EXCEPT ![w] = "call"]
    /\ UNCHANGED <<cfgVars, mainpc, ensureIdx, storeVars, ensureErr, jobs,
                   totalTasks, successCount, failCount, tickBuf, clockVars,
                   job, backoff, records, jobHist, admits, trail, sleeps,
                   runVars>>

\* cur := atomic.AddInt64(&currentTask, 1), the progress line, attempt := 1
Progress(w) ==
    /\ pc[w] = "progress"
    /\ currentTask' = currentTask + 1
    /\ handed' = Append(handed, currentTask')
    /\ attempt' = [attempt EXCEPT ![w] = 1]
    /\ pc' = [pc EXCEPT ![w] = "call"]
    /\ UNCHANGED <<cfgVars, mainpc, ensureIdx, storeVars, ensureErr, jobs,
                   totalTasks, successCount, failCount, tickBuf, clockVars,
                   job, backoff, records, jobHist, admits, trail, sleeps,
                   runVars>>

\* a retry loop that counts a failure for every failed attempt
CallErrRetryCounted(w) ==
    /\ pc[w] = "call"
    /\ attempt[w] < retryCfg.MaxAttempts
    /\ trail' = [trail EXCEPT ![w] = Append(@, "err")]
    /\ backoff' = [backoff EXCEPT ![w] = Backoff(retryCfg.BaseDelayMS, retryCfg.MaxDelayMS, attempt[w])]
    /\ pc' = [pc EXCEPT ![w] = "sleep"]
    /\ failCount' = failCount + 1
    /\ failInc' = Bump(failInc, job[w].pos)
    /\ UNCHANGED <<cfgVars, mainpc, ensureIdx, storeVars, ensureErr, jobs,
                   totalTasks, currentTask, successCount, tickBuf, clockVars, job, attempt,
                   records, taken, succInc, admits, sleeps, handed, runVars>>

\* HistoryCandlesticksByDate returns an error and attempts remain
CallErrRetry(w) ==
    /\ pc[w] = "call"
    /\ attempt[w] < retryCfg.MaxAttempts
    /\ trail' = [trail EXCEPT ![w] = Append(@, "err")]
    /\ backoff' = [backoff EXCEPT ![w] = Backoff(retryCfg.BaseDelayMS, retryCfg.MaxDelayMS, attempt[w])]
    /\ pc' = [pc EXCEPT ![w] = "sleep"]
    /\ UNCHANGED <<cfgVars, mainpc, ensureIdx, storeVars, ensureErr, jobs,
                   totalTasks, counterVars, tickBuf, clockVars, job, attempt,
                   records, jobHist, admits, sleeps, handed, runVars>>

\* a backoff that waits on the shared limiter, taking the pending tick
SleepOnTick(w) ==
    /\ pc[w] = "sleep"
    /\ tickBuf = 1
    /\ tickBuf' = 0
    /\ sleeps' = [sleeps EXCEPT ![w] = Append(@, backoff[w])]
    /\ attempt' = [attempt EXCEPT ![w] = @ + 1]
    /\ backoff' = [backoff EXCEPT ![w] = 0]
    /\ pc' = [pc EXCEPT ![w] = "call"]
    /\ UNCHANGED <<cfgVars, mainpc, ensureIdx, storeVars, ensureErr, jobs,
                   totalTasks, counterVars, clockVars, job, records,
                   jobHist, admits, trail, handed, runVars>>

\* time.Sleep(backoff); continue
Sleep(w) ==
    /\ pc[w] = "sleep"
    /\ sleeps' = [sleeps EXCEPT ![w] = Append(@, backoff[w])]
    /\ attempt' = [attempt EXCEPT ![w] = @ + 1]
    /\ backoff' = [backoff EXCEPT ![w] = 0]
    /\ pc' = [pc EXCEPT ![w] = "call"]
    /\ UNCHANGED <<cfgVars, mainpc, ensureIdx, storeVars, ensureErr, jobs,
                   totalTasks, counterVars, tickBuf, clockVars, job, records,
                   jobHist, admits, trail, handed, runVars>>

\* an exhaustion branch that stores what the failed call returned, taken here
\* to be the first candlestick of the day
CallErrFinalStored(w) ==
    /\ pc[w] = "call"
    /\ ~(attempt[w] < retryCfg.MaxAttempts)
    /\ trail' = [trail EXCEPT ![w] = Append(@, "err")]
    /\ failCount' = failCount + 1
    /\ failInc' = Bump(failInc, job[w].pos)
    /\ attempt' = [attempt EXCEPT ![w] = 0]
    /\ records' = [records EXCEPT ![w] = <<>>]
    /\ pc' = [pc EXCEPT ![w] = "range"]
    /\ LET t == safeTableName(job[w].symbol)
           b == Transform(job[w].symbol, remote[job[w].date])
       IN rows' = IF b = <<>> \/ t \notin tableExists THEN rows
                  ELSE [rows EXCEPT ![t] = @ \cup
                          {[timestamp |-> Head(b).Timestamp,
                            open |-> Head(b).Open, close |-> Head(b).Close,
                            high |-> Head(b).High, low |-> Head(b).Low,
                            volume |-> Head(b).Volume,
                            turnover |-> Head(b).Turnover]}]
    /\ UNCHANGED <<cfgVars, mainpc, ensureIdx, tableExists, ensureErr, jobs,
                   totalTasks, currentTask, successCount, tickBuf, clockVars,
                   job, backoff, taken, succInc, admits, sleeps, handed,
                   runVars>>

\* an exhaustion branch that reports the error and counts nothing
CallErrFinalUncounted(w) ==
    /\ pc[w] = "call"
    /\ ~(attempt[w] < retryCfg.MaxAttempts)
    /\ trail' = [trail EXCEPT ![w] = Append(@, "err")]
    /\ attempt' = [attempt EXCEPT ![w] = 0]
    /\ records' = [records EXCEPT ![w] = <<>>]
    /\ pc' = [pc EXCEPT ![w] = "range"]
    /\ UNCHANGED <<cfgVars, mainpc, ensureIdx, storeVars, ensureErr, jobs,
                   totalTasks, counterVars, tickBuf, clockVars,
                   job, backoff, jobHist, admits, sleeps, handed,
                   runVars>>

\* HistoryCandlesticksByDate returns an error on the last attempt
CallErrFinal(w) ==
    /\ pc[w] = "call"
    /\ ~(attempt[w] < retryCfg.MaxAttempts)
    /\ trail' = [trail EXCEPT ![w] = Append(@, "err")]
    /\ failCount' = failCount + 1
    /\ failInc' = Bump(failInc, job[w].pos)
    /\ attempt' = [attempt EXCEPT ![w] = 0]
    /\ records' = [records EXCEPT ![w] = <<>>]
    /\ pc' = [pc EXCEPT ![w] = "range"]
    /\ UNCHANGED <<cfgVars, mainpc, ensureIdx, storeVars, ensureErr, jobs,
                   totalTasks, currentTask, successCount, tickBuf, clockVars,
                   job, backoff, taken, succInc, admits, sleeps, handed,
                   runVars>>

\* HistoryCandlesticksByDate returns the candlesticks; they are transformed
CallOk(w) ==
    /\ pc[w] = "call"
    /\ trail' = [trail EXCEPT ![w] = Append(@, "ok")]
    /\ records' = [records EXCEPT ![w] =
                      Transform(job[w].symbol, remote[job[w].date])]
    /\ pc' = [pc EXCEPT ![w] = "prepare"]
    /\ UNCHANGED <<cfgVars, mainpc, ensureIdx, storeVars, ensureErr, jobs,
                   totalTasks, counterVars, tickBuf, clockVars, job, attempt,
                   backoff, jobHist, admits, sleeps, handed, runVars>>

\* a persistence failure that continues the retry loop, so that the job is
\* fetched again while attempts remain
PrepareErrRefetch(w) ==
    /\ pc[w] = "prepare"
    /\ trail' = [trail EXCEPT ![w] = Append(@, "prepErr")]
    /\ records' = [records EXCEPT ![w] = <<>>]
    /\ IF attempt[w] < retryCfg.MaxAttempts
          THEN /\ attempt' = [attempt EXCEPT ![w] = @ + 1]
               /\ pc' = [pc EXCEPT ![w] = "call"]
               /\ UNCHANGED <<failCount, failInc>>
          ELSE /\ attempt' = [attempt EXCEPT ![w] = 0]
               /\ pc' = [pc EXCEPT ![w] = "range"]
               /\ failCount' = failCount + 1
               /\ failInc' = Bump(failInc, job[w].pos)
    /\ UNCHANGED <<cfgVars, mainpc, ensureIdx, storeVars, ensureErr, jobs,
                   totalTasks, currentTask, successCount, tickBuf, clockVars,
                   job, backoff, taken, succInc, admits, sleeps, handed,
                   runVars>>

\* InsertCandlesticks: db.Prepare returns an error (a missing table, a lost
\* connection); main counts the job as failed
PrepareErr(w) ==
    /\ pc[w] = "prepare"
    /\ failCount' = failCount + 1
    /\ failInc' = Bump(failInc, job[w].pos)
    /\ attempt' = [attempt EXCEPT ![w] = 0]
    /\ records' = [records EXCEPT ![w] = <<>>]
    /\ trail' = [trail EXCEPT ![w] = Append(@, "prepErr")]
    /\ pc' = [pc EXCEPT ![w] = "range"]
    /\ UNCHANGED <<cfgVars, mainpc, ensureIdx, storeVars, ensureErr, jobs,
                   totalTasks, currentTask, successCount, tickBuf, clockVars,
                   job, backoff, taken, succInc, admits, sleeps, handed,
                   runVars>>

\* InsertCandlesticks: db.Prepare succeeds, which needs the table
PrepareOk(w) ==
    /\ pc[w] = "prepare"
    /\ storeUp
    /\ safeTableName(job[w].symbol) \in tableExists
    /\ pc' = [pc EXCEPT ![w] = "exec"]
    /\ UNCHANGED <<cfgVars, mainpc, ensureIdx, storeVars, ensureErr, jobs,
                   totalTasks, counterVars, tickBuf, clockVars, job, attempt,
                   backoff, records, jobHist, admits, trail, sleeps, handed,
                   runVars>>

\* the row that insertStmt.Exec writes for a record
RowOf(c) ==
    [timestamp |-> c.Timestamp, open |-> c.Open, close |-> c.Close,
     high |-> c.High, low |-> c.Low, volume |-> c.Volume, turnover |-> c.Turnover]

\* INSERT ... ON CONFLICT (timestamp) DO UPDATE
InsertRowUpsert(rs, c) ==
    {r \in rs : r.timestamp # c.Timestamp} \cup {RowOf(c)}

\* INSERT without a conflict clause on a table without a key
InsertRowPlain(rs, c) ==
    rs \cup {RowOf(c)}

\* INSERT ... ON CONFLICT (timestamp) DO NOTHING
InsertRow(rs, c) ==
    IF \E r \in rs : r.timestamp = c.Timestamp THEN rs ELSE rs \cup {RowOf(c)}

\* InsertCandlesticks: insertStmt.Exec of the next record succeeds
ExecRow(w) ==
    /\ pc[w] = "exec"
    /\ records[w] # <<>>
    /\ storeUp
    /\ LET t == safeTableName(job[w].symbol)
       IN rows' = [rows EXCEPT ![t] = InsertRow(@, Head(records[w]))]
    /\ records' = [records EXCEPT ![w] = Tail(@)]
    /\ UNCHANGED <<cfgVars, mainpc, ensureIdx, tableExists, ensureErr, jobs,
                   totalTasks, counterVars, tickBuf, clockVars, pc, job,
                   attempt, backoff, jobHist, admits, trail, sleeps, handed,
                   runVars>>

\* an InsertCandlesticks that returns the first Exec error, which main counts
\* as the job's failure
ExecErrAbort(w) ==
    /\ pc[w] = "exec"
    /\ records[w] # <<>>
    /\ failCount' = failCount + 1
    /\ failInc' = Bump(failInc, job[w].pos)
    /\ attempt' = [attempt EXCEPT ![w] = 0]
    /\ records' = [records EXCEPT ![w] = <<>>]
    /\ trail' = [trail EXCEPT ![w] = Append(@, "prepErr")]
    /\ pc' = [pc EXCEPT ![w] = "range"]
    /\ UNCHANGED <<cfgVars, mainpc, ensureIdx, storeVars, ensureErr, jobs,
                   totalTasks, currentTask, successCount, tickBuf, clockVars,
                   job, backoff, taken, succInc, admits, sleeps, handed,
                   runVars>>

\* InsertCandlesticks: insertStmt.Exec returns an error, which is logged; the
\* job's history notes the Exec calls that failed for want of a connection
ExecErr(w) ==
    /\ pc[w] = "exec"
    /\ records[w] # <<>>
    /\ records' = [records EXCEPT ![w] = Tail(@)]
    /\ trail' = [trail EXCEPT ![w] = IF storeUp THEN @ ELSE Append(@, "lost")]
    /\ UNCHANGED <<cfgVars, mainpc, ensureIdx, storeVars, ensureErr, jobs,
                   totalTasks, counterVars, tickBuf, clockVars, pc, job,
                   attempt, backoff, jobHist, admits, sleeps, handed,
                   runVars>>

\* a success path that counts the job again in the `fetched` block
InsertDoneTwice(w) ==
    /\ pc[w] = "exec"
    /\ records[w] = <<>>
    /\ successCount' = successCount + 2
    /\ succInc' = Bump(succInc, job[w].pos)
    /\ attempt' = [attempt EXCEPT ![w] = 0]
    /\ records' = [records EXCEPT ![w] = <<>>]
    /\ trail' = [trail EXCEPT ![w] = Append(@, "stored")]
    /\ pc' = [pc EXCEPT ![w] = "range"]
    /\ UNCHANGED <<cfgVars, mainpc, ensureIdx, storeVars, ensureErr, jobs,
                   totalTasks, currentTask, failCount, tickBuf, clockVars,
                   job, backoff, taken, failInc, admits, sleeps, handed,
                   runVars>>

\* InsertCandlesticks returns nil; main counts the job as succeeded
InsertDone(w) ==
    /\ pc[w] = "exec"
    /\ records[w] = <<>>
    /\ successCount' = successCount + 1
    /\ succInc' = Bump(succInc, job[w].pos)
    /\ attempt' = [attempt EXCEPT ![w] = 0]
    /\ records' = [records EXCEPT ![w] = <<>>]
    /\ trail' = [trail EXCEPT ![w] = Append(@, "stored")]
    /\ pc' = [pc EXCEPT ![w] = "range"]
    /\ UNCHANGED <<cfgVars, mainpc, ensureIdx, storeVars, ensureErr, jobs,
                   totalTasks, currentTask, failCount, tickBuf, clockVars,
                   job, backoff, taken, failInc, admits, sleeps, handed,
                   runVars>>

WorkerStep(w) ==
    \/ Dequeue(w)
    \/ Exit(w)
    \/ Admit(w)
    \/ Progress(w)
    \/ CallErrRetry(w)
    \/ Sleep(w)
    \/ CallErrFinal(w)
    \/ CallOk(w)
    \/ PrepareErr(w)
    \/ PrepareOk(w)
    \/ ExecRow(w)
    \/ ExecErr(w)
    \/ InsertDone(w)

MainStep ==
    \/ LoadOk
    \/ LoadFatal
    \/ QuoteContextOk
    \/ QuoteContextFatal
    \/ EnsureTableOk
    \/ EnsureTableErr
    \/ StartPool
    \/ Summary

Next ==
    \/ MainStep
    \/ TickerTick
    \/ \E w \in Workers : WorkerStep(w)

Spec == Init /\ [][Next]_vars

----------------------------------------------------------------------------
(* The pipeline started against a database server that is reachable or not *)

InitStartup ==
    /\ \E c \in Configs : symbols = c[1] /\ dates = c[2]
    /\ threads \in 1..NumWorkers
    /\ retryCfg = [MaxAttempts |-> MaxAttempts, BaseDelayMS |-> BaseDelayMS,
                   MaxDelayMS |-> MaxDelayMS]
    /\ remote = [d \in Dates |-> DefaultRemote(d)]
    /\ storeUp \in BOOLEAN
    /\ FreshStore
    /\ StartOfRun

SpecStartup == InitStartup /\ [][Next]_vars

\* the exit status of the process, once it has exited
ExitStatus == IF mainpc = "fatal" THEN 1 ELSE 0

----------------------------------------------------------------------------
(* The pipeline under fair scheduling: main and every started goroutine    *)
(* keep being scheduled, every call they wait for returns (with either     *)
(* outcome), and the runtime keeps delivering the ticker's ticks            *)

Fairness ==
    /\ WF_vars(MainStep)
    /\ WF_vars(TickerTick)
    /\ \A w \in Workers : WF_vars(WorkerStep(w))

\* no symbol or one, up to two dates, every worker count
InitLive ==
    /\ symbols \in {<<>>, <<SymAAPL>>}
    /\ dates \in {<<>>, <<1>>, <<1, 2>>}
    /\ threads \in 1..NumWorkers
    /\ retryCfg = [MaxAttempts |-> MaxAttempts, BaseDelayMS |-> BaseDelayMS,
                   MaxDelayMS |-> MaxDelayMS]
    /\ remote = [d \in Dates |-> DefaultRemote(d)]
    /\ storeUp = TRUE
    /\ FreshStore
    /\ StartOfRun

SpecLive == InitLive /\ [][Next]_vars /\ Fairness

----------------------------------------------------------------------------
(* The pipeline for every pair of configured lists within the bounds, the   *)
(* lists that name a symbol or a date twice included                        *)

\* the lists over S of at most n entries
ListsUpTo(S, n) == UNION {[1..k -> S] : k \in 0..n}

InitLists ==
    /\ symbols \in ListsUpTo(SymbolPool, MaxJobs)
    /\ dates \in ListsUpTo(Dates, MaxJobs)
    /\ Len(symbols) * Len(dates) <= MaxJobs
    /\ threads = 1
    /\ retryCfg = [MaxAttempts |-> MaxAttempts, BaseDelayMS |-> BaseDelayMS,
                   MaxDelayMS |-> MaxDelayMS]
    /\ remote = [d \in Dates |-> DefaultRemote(d)]
    /\ storeUp = TRUE
    /\ FreshStore
    /\ StartOfRun

SpecLists == InitLists /\ [][Next]_vars

----------------------------------------------------------------------------
(* One job on one worker, for every symbol of NamePool *)

InitNames ==
    /\ \E sym \in NamePool : symbols = <<sym>>
    /\ dates = <<1>>
    /\ threads = 1
    /\ retryCfg = [MaxAttempts |-> MaxAttempts, BaseDelayMS |-> BaseDelayMS,
                   MaxDelayMS |-> MaxDelayMS]
    /\ remote = [d \in Dates |-> DefaultRemote(d)]
    /\ storeUp = TRUE
    /\ FreshStore
    /\ StartOfRun

SpecNames == InitNames /\ [][Next]_vars

----------------------------------------------------------------------------
(* The pipeline with a database server that may become unreachable while   *)
(* the pool runs                                                            *)

\* the connection to the server is lost, for the rest of the run
StoreDown ==
    /\ mainpc = "wait"
    /\ storeUp
    /\ storeUp' = FALSE
    /\ UNCHANGED <<symbols, dates, threads, retryCfg, remote, mainpc, ensureIdx,
                   storeVars, ensureErr, jobs, totalTasks, counterVars, tickBuf,
                   clockVars, pc, job, attempt, backoff, records, jobHist,
                   admits, trail, sleeps, handed, runVars>>

NextOutage ==
    \/ Next
    \/ StoreDown

SpecOutage == Init /\ [][NextOutage]_vars

----------------------------------------------------------------------------
(* The pipeline against the clock: the ticker fires every Interval units *)

NextTimed ==
    \/ MainStep
    \/ Advance
    \/ \E w \in Workers : WorkerStep(w)

SpecTimed == Init /\ [][NextTimed]_vars

----------------------------------------------------------------------------
(* The pipeline run again on the same store and the same remote data *)

\* the timestamps the remote data of the configured jobs holds for a table
Expected(t) ==
    {c.Timestamp : c \in UNION {
        {Transform(symbols[i], remote[dates[k]])[n] :
            n \in 1..Len(Transform(symbols[i], remote[dates[k]]))} :
        i \in {x \in 1..Len(symbols) : safeTableName(symbols[x]) = t},
        k \in 1..Len(dates)}}

\* the run before left a row for every such timestamp, and none of its jobs
\* failed
PrevClean ==
    /\ ~prevFailed
    /\ \A t \in TableNames :
          \A ts \in Expected(t) : \E r \in prevRows[t] : r.timestamp = ts

\* the process is started again: same configuration, same store
Rerun ==
    /\ mainpc = "done"
    /\ run < MaxRuns
    /\ run' = run + 1
    /\ prevRows' = rows
    /\ prevFailed' = (failCount > 0)
    /\ mainpc' = "load"
    /\ ensureIdx' = 1
    /\ ensureErr' = {}
    /\ jobs' = <<>>
    /\ totalTasks' = 0
    /\ currentTask' = 0
    /\ successCount' = 0
    /\ failCount' = 0
    /\ tickBuf' = 0
    /\ phase' = 0
    /\ sinceAdmit' = Interval
    /\ ticks' = 0
    /\ pc' = [w \in Workers |-> "off"]
    /\ job' = [w \in Workers |-> NoJob]
    /\ attempt' = [w \in Workers |-> 0]
    /\ backoff' = [w \in Workers |-> 0]
    /\ records' = [w \in Workers |-> <<>>]
    /\ taken' = <<>>
    /\ succInc' = <<>>
    /\ failInc' = <<>>
    /\ admits' = [w \in Workers |-> 0]
    /\ trail' = [w \in Workers |-> <<>>]
    /\ sleeps' = [w \in Workers |-> <<>>]
    /\ handed' = <<>>
    /\ UNCHANGED <<cfgVars, storeVars>>

NextRerun ==
    \/ Next
    \/ Rerun

\* the worker counts the pipeline is run again with
RerunThreads == {1, 2}

InitRerun ==
    /\ Init
    /\ threads \in RerunThreads

SpecRerun == InitRerun /\ [][NextRerun]_vars

----------------------------------------------------------------------------
(* One job on one worker, for every retry configuration within the bounds *)

InitBackoff ==
    /\ symbols = <<SymAAPL>>
    /\ dates = <<1>>
    /\ threads = 1
    /\ retryCfg \in [MaxAttempts : 1..MaxCfgAttempts, BaseDelayMS : 1..MaxCfgDelay,
                      MaxDelayMS : 1..MaxCfgDelay]
    /\ remote = [d \in Dates |-> DefaultRemote(d)]
    /\ storeUp = TRUE
    /\ FreshStore
    /\ StartOfRun

SpecBackoff == InitBackoff /\ [][Next]_vars

----------------------------------------------------------------------------
(* One job on one worker, for every answer of the quote service within the *)
(* bounds: each point complete, or without some of its optional fields     *)

Shapes ==
    { <<TRUE, TRUE, TRUE, TRUE, TRUE>>,
      <<FALSE, TRUE, TRUE, TRUE, TRUE>>, <<TRUE, FALSE, TRUE, TRUE, TRUE>>,
      <<TRUE, TRUE, FALSE, TRUE, TRUE>>, <<TRUE, TRUE, TRUE, FALSE, TRUE>>,
      <<TRUE, TRUE, TRUE, TRUE, FALSE>>,
      <<FALSE, TRUE, TRUE, TRUE, FALSE>>, <<FALSE, FALSE, FALSE, FALSE, FALSE>> }

Opt(present, v) == IF present THEN Dec(v) ELSE Nil

\* the i-th point of an answer, the fields of shape sh present
ShapedPoint(i, sh) ==
    RawPoint(i, Opt(sh[1], 10 * i), Opt(sh[2], 10 * i + 1), Opt(sh[3], 10 * i + 2),
             Opt(sh[4], 10 * i - 1), 100 * i, Opt(sh[5], 7 * i))

RawLists ==
    UNION {{[i \in 1..n |-> ShapedPoint(i, shs[i])] : shs \in [1..n -> Shapes]} :
           n \in 0..MaxPoints}

InitTransform ==
    /\ symbols = <<SymAAPL>>
    /\ dates = <<1>>
    /\ threads = 1
    /\ retryCfg = [MaxAttempts |-> MaxAttempts, BaseDelayMS |-> BaseDelayMS,
                   MaxDelayMS |-> MaxDelayMS]
    /\ \E raw \in RawLists : remote = [d \in Dates |-> raw]
    /\ storeUp = TRUE
    /\ FreshStore
    /\ StartOfRun

SpecTransform == InitTransform /\ [][Next]_vars

----------------------------------------------------------------------------
(* Properties *)

IsCall(e) == e \in {"err", "ok"}
\* the remote calls made so far for worker w's job, in order
CallsOf(w) == SelectSeq(trail[w], IsCall)
Positions == DOMAIN taken
AllErr(n) == [i \in 1..n |-> "err"]

\* C1: every job placed in the queue is taken off it exactly once, by one
\* worker, and gets exactly one outcome: a job is untaken exactly while it is
\* still queued, no two workers hold the same job, and when the pool is done
\* every job has been taken once and counted once.
C1_EachJobOnce ==
    /\ \A p \in Positions :
          /\ taken[p] <= 1
          /\ taken[p] = 0 <=> \E i \in 1..Len(jobs) : jobs[i].pos = p
          /\ taken[p] = 1 =>
                \/ Cardinality({w \in Workers : job[w].pos = p}) = 1
                \/ succInc[p] + failInc[p] = 1
    /\ \A w, v \in Workers :
          (w # v /\ job[w] # NoJob /\ job[v] # NoJob) => job[w].pos # job[v].pos
    /\ mainpc = "done" =>
          /\ Len(taken) = Len(symbols) * Len(dates)
          /\ \A p \in Positions : taken[p] = 1 /\ succInc[p] + failInc[p] = 1

\* two workers have drained a queue of two jobs or more
C1_Witness ==
    /\ mainpc = "done"
    /\ threads >= 2
    /\ Len(taken) >= 2
    /\ \A p \in Positions : taken[p] = 1

\* C2: no two admissions are closer together than one ticker period: a
\* receive from limiter.C happens only when at least Interval clock units
\* went by since the receive before it.
C2_MinSpacing ==
    [][\A w \in Workers :
          (pc[w] = "admit" /\ pc'[w] = "progress") => sinceAdmit >= Interval]_vars

\* C3: every remote call of a job is preceded by its own admission: the calls
\* made for a job never outnumber the admissions acquired for it.
C3_AdmitPerCall ==
    \A w \in Workers :
        /\ Len(CallsOf(w)) <= admits[w]
        /\ admits[w] <= Len(CallsOf(w)) + 1

\* C4: a job whose remote call failed on all MaxAttempts attempts is counted
\* as failed exactly once and never as succeeded, its worker is back at the
\* head of its loop and takes the next job if there is one, the counters are
\* the sums of the per-job counts, and when the pool is done every job of the
\* queue has been processed.
C4_Exhausted ==
    /\ \A w \in Workers :
          (job[w] # NoJob /\ CallsOf(w) = AllErr(MaxAttempts)) =>
              /\ trail[w] = AllErr(MaxAttempts)
              /\ failInc[job[w].pos] = 1
              /\ succInc[job[w].pos] = 0
              /\ pc[w] = "range"
              /\ jobs # <<>> => ENABLED Dequeue(w)
    /\ failCount = SumSeq(failInc)
    /\ successCount = SumSeq(succInc)
    /\ mainpc = "done" =>
          \A p \in Positions : taken[p] = 1 /\ succInc[p] + failInc[p] = 1

\* a worker has given up on a job after MaxAttempts failed calls while another
\* job is still queued
C4_Witness ==
    \E w \in Workers :
        /\ job[w] # NoJob
        /\ trail[w] = AllErr(MaxAttempts)
        /\ jobs # <<>>

\* C5 as stated: a job whose call fails on attempts 1 and 2 and succeeds on
\* attempt 3 ends counted as succeeded and not as failed, having slept at
\* least BaseDelay + 2 * BaseDelay.
C5_Original ==
    \A w \in Workers :
        (job[w] # NoJob /\ pc[w] = "range" /\ CallsOf(w) = <<"err", "err", "ok">>) =>
            /\ succInc[job[w].pos] = 1
            /\ failInc[job[w].pos] = 0
            /\ SumSeq(sleeps[w]) >= BaseDelayMS + 2 * BaseDelayMS

\* C5, amended: such a job has slept BaseDelay and then 2 * BaseDelay before
\* its third call; it is counted as succeeded once and never as failed when
\* InsertCandlesticks returns nil, and as failed once and never as succeeded
\* when InsertCandlesticks returns an error.
C5_ThirdAttempt ==
    \A w \in Workers :
        (job[w] # NoJob /\ CallsOf(w) = <<"err", "err", "ok">>) =>
            /\ sleeps[w] = <<BaseDelayMS, 2 * BaseDelayMS>>
            /\ SumSeq(sleeps[w]) >= BaseDelayMS + 2 * BaseDelayMS
            /\ trail[w] = <<"err", "err", "ok", "stored">> =>
                  succInc[job[w].pos] = 1 /\ failInc[job[w].pos] = 0
            /\ trail[w] = <<"err", "err", "ok", "prepErr">> =>
                  succInc[job[w].pos] = 0 /\ failInc[job[w].pos] = 1
            /\ pc[w] = "range" => Len(trail[w]) = 4

\* a job went through two failed calls, a third that succeeded, and the insert
C5_Witness ==
    \E w \in Workers :
        /\ job[w] # NoJob
        /\ trail[w] = <<"err", "err", "ok", "stored">>
        /\ successCount >= 1

\* C6: the k-th backoff slept for a job is min(BaseDelay * 2^(k-1), MaxDelay),
\* for k < MaxAttempts only; the delays never decrease and never exceed
\* MaxDelay.
C6_Backoff ==
    \A w \in Workers :
        LET d == IF pc[w] = "sleep" THEN Append(sleeps[w], backoff[w]) ELSE sleeps[w]
        IN /\ Len(d) < retryCfg.MaxAttempts
           /\ \A k \in 1..Len(d) :
                 /\ d[k] = Min(retryCfg.BaseDelayMS * 2 ^ (k - 1), retryCfg.MaxDelayMS)
                 /\ d[k] <= retryCfg.MaxDelayMS
                 /\ k > 1 => d[k - 1] <= d[k]
           /\ pc[w] = "sleep" => Len(d) = attempt[w]

\* a job slept a delay that doubled and then one that was capped at MaxDelay
C6_Witness ==
    \E w \in Workers :
        /\ Len(sleeps[w]) >= 3
        /\ sleeps[w][1] < sleeps[w][2]
        /\ sleeps[w][2] = 2 * retryCfg.BaseDelayMS
        /\ sleeps[w][3] = retryCfg.MaxDelayMS
        /\ retryCfg.BaseDelayMS * 4 > retryCfg.MaxDelayMS

OneRowPerTimestamp ==
    \A t \in TableNames :
        \A r1, r2 \in rows[t] : r1.timestamp = r2.timestamp => r1 = r2

\* C7 as stated: in a second run the tables stay exactly as the first run left
\* them, with one row per timestamp, and no failure is counted when the first
\* run counted none.
C7_Original ==
    run > 1 =>
        /\ rows = prevRows
        /\ OneRowPerTimestamp
        /\ ~prevFailed => failCount = 0

\* C7, amended: a run after a run that left a row for every timestamp of the
\* remote data (none of its jobs failed, none of its record inserts failed)
\* leaves every table exactly as it found it; any later run keeps every row it
\* found, unchanged, and creates no duplicate timestamp.
C7_Rerun ==
    run > 1 =>
        /\ PrevClean => rows = prevRows
        /\ \A t \in TableNames : prevRows[t] \subseteq rows[t]
        /\ OneRowPerTimestamp

\* a second run has stored all its jobs, two or more, on a store the first run
\* had filled
C7_Witness ==
    /\ run = 2
    /\ PrevClean
    /\ mainpc = "done"
    /\ totalTasks >= 2
    /\ successCount = totalTasks
    /\ \E t \in TableNames : Cardinality(rows[t]) >= 2

\* the next record of worker w meets a row with its timestamp
Conflict(w) ==
    /\ pc[w] = "exec"
    /\ records[w] # <<>>
    /\ \E r \in rows[safeTableName(job[w].symbol)] :
          r.timestamp = Head(records[w]).Timestamp

\* C8: a table never holds two rows with one timestamp; no step removes or
\* changes a row; and the insert of a record whose timestamp is present
\* changes no table, counts no failure and leaves the worker in its batch.
C8_InsertIfAbsent ==
    /\ []OneRowPerTimestamp
    /\ [][/\ \A t \in TableNames : rows[t] \subseteq rows'[t]
          /\ \A w \in Workers :
                (Conflict(w) /\ records'[w] # records[w]) =>
                    /\ rows' = rows
                    /\ failCount' = failCount
                    /\ pc'[w] = "exec"]_vars

\* a job was stored although another job's row, with other prices, had taken
\* the timestamp of one of its records, while a second worker was inserting
\* into the same table
C8_Witness ==
    \E w, v \in Workers :
        /\ w # v
        /\ job[w] # NoJob /\ job[v] # NoJob
        /\ safeTableName(job[w].symbol) = safeTableName(job[v].symbol)
        /\ pc[v] = "exec"
        /\ trail[w] # <<>> /\ trail[w][Len(trail[w])] = "stored"
        /\ LET recs == Transform(job[w].symbol, remote[job[w].date])
               t == safeTableName(job[w].symbol)
           IN \E n \in 1..Len(recs) :
                 /\ RowOf(recs[n]) \notin rows[t]
                 /\ \E r \in rows[t] : r.timestamp = recs[n].Timestamp

Complete(p) == p.Open # Nil /\ p.Close # Nil /\ p.High # Nil /\ p.Low # Nil

\* the record of a complete raw point
RecordOf(symbol, p) ==
    [Symbol |-> symbol, Timestamp |-> [sec |-> p.Timestamp, nsec |-> 0],
     Open |-> p.Open[1], Close |-> p.Close[1], High |-> p.High[1], Low |-> p.Low[1],
     Volume |-> p.Volume, Turnover |-> IF p.Turnover = Nil THEN 0 ELSE p.Turnover[1]]

\* C9: the records handed to InsertCandlesticks are the complete raw points of
\* the answer, in order, turnover 0 where it was absent, volume and timestamp
\* as answered; and every row of a table is the row of a complete raw point.
C9_Transform ==
    /\ \A w \in Workers :
          pc[w] \in {"prepare", "exec"} =>
              LET raw == remote[job[w].date]
                  good == SelectSeq(raw, Complete)
                  want == [i \in 1..Len(good) |-> RecordOf(job[w].symbol, good[i])]
              IN /\ pc[w] = "prepare" => records[w] = want
                 /\ \E k \in 0..Len(want) : records[w] = SubSeq(want, k + 1, Len(want))
    /\ \A t \in TableNames : \A r \in rows[t] :
          \E d \in Dates : \E i \in 1..Len(remote[d]) :
              /\ Complete(remote[d][i])
              /\ r = RowOf(RecordOf(SymAAPL, remote[d][i]))

\* an answer with an incomplete point and a complete point without turnover
\* was stored: the table holds a row with turnover 0 and none for the
\* incomplete point
C9_Witness ==
    \E w \in Workers :
        /\ job[w] # NoJob
        /\ trail[w] = <<"ok", "stored">>
        /\ LET raw == remote[job[w].date]
               t == safeTableName(job[w].symbol)
           IN /\ \E i \in 1..Len(raw) : ~Complete(raw[i])
              /\ \E i \in 1..Len(raw) :
                    /\ Complete(raw[i]) /\ raw[i].Turnover = Nil
                    /\ \E r \in rows[t] :
                          r.timestamp.sec = raw[i].Timestamp /\ r.turnover = 0
              /\ \A i \in 1..Len(raw) :
                    ~Complete(raw[i]) =>
                        \A r \in rows[t] : r.timestamp.sec # raw[i].Timestamp

\* C10: no remote call and no insert is made for a job of a symbol whose
\* EnsureTable returned an error.
C10_SkipFailedSymbol ==
    \A w \in Workers :
        (job[w] # NoJob /\ job[w].symbol \in ensureErr) => trail[w] = <<>>

\* the process has exited
Exited == mainpc \in {"fatal", "done"}

\* C11: in a run whose database server is unreachable from the start, no job
\* is received from the queue, no remote call is made, and the process does
\* not exit with status zero.
C11_FatalStartup ==
    ~storeUp =>
        /\ \A p \in DOMAIN taken : taken[p] = 0
        /\ \A w \in Workers : job[w] = NoJob /\ trail[w] = <<>>
        /\ Exited => ExitStatus # 0

\* the pool is done: the queue is empty, every started worker has returned
\* and the summary is printed
PoolDone ==
    /\ mainpc = "done"
    /\ jobs = <<>>
    /\ \A w \in Started : pc[w] = "done"

\* C12: under fair scheduling a run that starts its pool reaches PoolDone; a
\* worker returns only when the closed queue is empty, and wg.Wait returns
\* only when every started worker has returned.
C12_Completion ==
    /\ [](\A w \in Started : pc[w] = "done" => jobs = <<>>)
    /\ [](mainpc = "done" => PoolDone)
    /\ (mainpc = "pool") ~> PoolDone

\* a pool of two workers is done after a job failed and a job succeeded
C12_Witness ==
    /\ PoolDone
    /\ threads >= 2
    /\ failCount >= 1
    /\ successCount >= 1

\* the queue is as main built it: the workers have received nothing yet
QueueBuilt == mainpc = "wait" /\ \A p \in DOMAIN taken : taken[p] = 0

\* C13: the queue main builds holds len(symbols) * len(dates) jobs, no two
\* of them with the same (symbol, date) pair, and every pair of a configured
\* symbol and a configured date is the pair of exactly one job.
C13_DistinctJobs ==
    QueueBuilt =>
        /\ Len(jobs) = Len(symbols) * Len(dates)
        /\ totalTasks = Len(symbols) * Len(dates)
        /\ \A i, k \in DOMAIN jobs :
              (jobs[i].symbol = jobs[k].symbol /\ jobs[i].date = jobs[k].date) => i = k
        /\ \A i \in DOMAIN symbols : \A k \in DOMAIN dates :
              Cardinality({n \in DOMAIN jobs : jobs[n].symbol = symbols[i]
                                               /\ jobs[n].date = dates[k]}) = 1

\* the positions of the dots of a string
DotsOf(str) == {i \in 1..Len(str) : str[i] = "."}
FirstDot(str) == CHOOSE i \in DotsOf(str) : \A k \in DotsOf(str) : i <= k
\* the lower-case form of a string of the pool, letter by letter
Lowered(str) == [i \in 1..Len(str) |-> ToLowerChar(str[i])]

\* the name C14 describes: what precedes the first dot and what follows it
NameAsStated(symbol) ==
    Lowered(SubSeq(symbol, 1, FirstDot(symbol) - 1)) \o <<"_">>
        \o Lowered(SubSeq(symbol, FirstDot(symbol) + 1, Len(symbol)))

\* C14: every table EnsureTable created and every table InsertCandlesticks
\* writes to is named by the lower-case part before the symbol's first dot, an
\* underscore and the lower-case part after that dot; AAPL.US gives aapl_us
\* and 0700.HK gives 0700_hk.
C14_TableName ==
    /\ \A t \in tableExists : \E i \in DOMAIN symbols : t = NameAsStated(symbols[i])
    /\ \A w \in Workers :
          pc[w] = "exec" => NameAsStated(job[w].symbol) \in tableExists
    /\ \A t \in TableNames :
          rows[t] # {} => \E i \in DOMAIN symbols : t = NameAsStated(symbols[i])
    /\ safeTableName(SymAAPL) = <<"a", "a", "p", "l", "_", "u", "s">>
    /\ safeTableName(Sym0700) = <<"0", "7", "0", "0", "_", "h", "k">>

\* the job worker w holds is over, and its last remote call returned nil
FetchedAndOver(w) ==
    /\ job[w] # NoJob
    /\ pc[w] = "range"
    /\ CallsOf(w) # <<>>
    /\ CallsOf(w)[Len(CallsOf(w))] = "ok"

\* C15: a job whose remote call succeeded with no record to keep (an empty
\* answer, or only incomplete points) is counted as succeeded once and not as
\* failed, and no table has changed.
C15_EmptySuccess ==
    \A w \in Workers :
        (FetchedAndOver(w) /\ Transform(job[w].symbol, remote[job[w].date]) = <<>>) =>
            /\ succInc[job[w].pos] = 1
            /\ failInc[job[w].pos] = 0
            /\ \A t \in TableNames : rows[t] = {}

\* the records worker w hands to InsertCandlesticks for its job
BatchOf(w) == Transform(job[w].symbol, remote[job[w].date])

\* worker w's job ended with InsertCandlesticks returning nil
Stored(w) ==
    /\ job[w] # NoJob
    /\ trail[w] # <<>>
    /\ trail[w][Len(trail[w])] = "stored"

\* C16: a step of InsertCandlesticks' loop takes one record, whether its Exec
\* failed or not, counts no failure and stays in the loop with the records
\* that follow, each of which can still be inserted; and the job is counted as
\* succeeded once and never as failed, whatever rows are missing.
C16_RecordFailureSkipped ==
    /\ [](\A w \in Workers :
            /\ (pc[w] = "exec" /\ records[w] # <<>>) => ENABLED ExecRow(w)
            /\ pc[w] = "exec" =>
                  \E k \in 0..Len(BatchOf(w)) :
                      records[w] = SubSeq(BatchOf(w), k + 1, Len(BatchOf(w)))
            /\ Stored(w) => succInc[job[w].pos] = 1 /\ failInc[job[w].pos] = 0)
    /\ [][\A w \in Workers :
            (pc[w] = "exec" /\ records[w] # <<>> /\ records'[w] # records[w]) =>
                /\ records'[w] = Tail(records[w])
                /\ pc'[w] = "exec"
                /\ failCount' = failCount
                /\ failInc' = failInc]_vars

\* a job of two records was stored and counted as succeeded: the first
\* record's Exec failed and left no row, the second record's row is there
C16_Witness ==
    \E w \in Workers :
        /\ Stored(w)
        /\ Len(BatchOf(w)) = 2
        /\ successCount >= 1
        /\ LET t == safeTableName(job[w].symbol)
           IN /\ \A r \in rows[t] : r.timestamp # BatchOf(w)[1].Timestamp
              /\ RowOf(BatchOf(w)[2]) \in rows[t]

\* the Exec calls of worker w's job that failed for want of a connection
LostExecs(w) == Len(SelectSeq(trail[w], LAMBDA e : e = "lost"))

\* C17: a job whose remote call succeeded and whose whole batch was lost
\* because the connection to the store went away during InsertCandlesticks is
\* counted as failed once and not as succeeded, after a single successful
\* remote call, and its worker is back at the queue.
C17_BatchFailure ==
    \A w \in Workers :
        (/\ job[w] # NoJob
         /\ pc[w] = "range"
         /\ BatchOf(w) # <<>>
         /\ LostExecs(w) = Len(BatchOf(w))) =>
            /\ failInc[job[w].pos] = 1
            /\ succInc[job[w].pos] = 0
            /\ Len(SelectSeq(CallsOf(w), LAMBDA e : e = "ok")) = 1
            /\ jobs # <<>> => ENABLED Dequeue(w)

\* the jobs received from the queue that have their progress number
Numbered ==
    Cardinality({p \in DOMAIN taken : taken[p] >= 1})
        - Cardinality({w \in Workers : pc[w] \in {"admit", "progress"}})

\* C18: the progress numbers handed out so far are 1, 2, ..., currentTask in
\* this order, one for each job that passed the limiter; currentTask never
\* exceeds totalTasks and equals it when the pool is done.
C18_ProgressNumbers ==
    /\ Len(handed) = currentTask
    /\ \A i \in DOMAIN handed : handed[i] = i
    /\ mainpc \in {"wait", "done"} =>
          /\ currentTask = Numbered
          /\ currentTask <= totalTasks
    /\ mainpc = "done" => currentTask = totalTasks /\ Len(handed) = totalTasks

\* two workers hold jobs at the same time, numbered 1 and 2
C18_Witness ==
    /\ handed = <<1, 2>>
    /\ \A w \in {1, 2} : pc[w] \in {"call", "sleep", "prepare", "exec"}

\* worker w is between receiving its job and counting its outcome
Busy(w) == pc[w] \in {"admit", "progress", "call", "sleep", "prepare", "exec"}

\* the job at queue position p was received and its outcome is counted
Processed(p) ==
    /\ taken[p] >= 1
    /\ ~\E w \in Workers : Busy(w) /\ job[w].pos = p

\* C19: a job is counted, as succeeded or as failed and never as both, exactly
\* when it is processed, and exactly once; the two counters hold these
\* counts, so that they add up to totalTasks when the pool is done.
C19_OneOutcomePerJob ==
    /\ \A p \in DOMAIN taken :
          /\ succInc[p] + failInc[p] = IF Processed(p) THEN 1 ELSE 0
    /\ successCount = Cardinality({p \in DOMAIN succInc : succInc[p] = 1})
    /\ failCount = Cardinality({p \in DOMAIN failInc : failInc[p] = 1})
    /\ mainpc = "done" => successCount + failCount = totalTasks

\* the summary of a run of two jobs reports one success and one failure
C19_Witness ==
    /\ mainpc = "done"
    /\ totalTasks = 2
    /\ successCount = 1
    /\ failCount = 1

\* C20: successCount + failCount <= currentTask <= totalTasks once the queue
\* is built, every counter is at least 0, and no step decreases or resets a
\* counter.
C20_CounterBounds ==
    /\ [](/\ successCount >= 0 /\ failCount >= 0 /\ currentTask >= 0
          /\ successCount + failCount <= currentTask
          /\ mainpc \in {"wait", "done"} => currentTask <= totalTasks
          /\ mainpc \notin {"wait", "done"} => currentTask = 0)
    /\ [][/\ successCount' >= successCount
          /\ failCount' >= failCount
          /\ currentTask' >= currentTask
          /\ totalTasks' >= totalTasks]_vars

\* a job was counted while another was still being fetched
C20_Witness ==
    /\ successCount + failCount = 1
    /\ currentTask = 2
    /\ totalTasks = 2
    /\ \E w \in Workers : pc[w] = "call"

\* the admissions granted so far: one for each worker that has received from
\* limiter.C and not yet taken its progress number, and one for each number
Admitted == currentTask + Cardinality({w \in Workers : pc[w] = "progress"})

\* C21: at most one tick is pending on limiter.C; every tick sent is either
\* still pending or was received by exactly one admission, so the admissions
\* granted never outnumber the ticks; and a step that admits a worker takes
\* the pending tick and admits no other worker.
C21_SingleSlotGate ==
    /\ [](/\ tickBuf \in {0, 1}
          /\ Admitted + tickBuf = ticks
          /\ Admitted <= ticks)
    /\ [][\A w \in Workers :
            (pc[w] = "admit" /\ pc'[w] = "progress") =>
                /\ tickBuf = 1 /\ tickBuf' = 0
                /\ \A v \in Workers \ {w} : pc'[v] = pc[v]]_vars

\* a worker waits at the gate with the second tick pending, the first tick
\* having admitted the other worker
C21_Witness ==
    /\ \E w \in Workers : pc[w] = "admit" /\ admits[w] = 0
    /\ \E w \in Workers : admits[w] = 1
    /\ tickBuf = 1
    /\ ticks = 2
    /\ Admitted = 1

\* the job of worker w has reached its outcome
JobOver(w) == job[w] # NoJob /\ ~Busy(w)

\* C22: a job is fetched at least once and at most MaxAttempts times; a
\* successful call is the last call of its job, whether the insert that follows
\* succeeds or fails; and for every job, whatever the worker did before, the
\* k-th call is attempt k and the k-th sleep is the backoff of attempt k, the
\* first one being BaseDelayMS.
C22_CallsPerJob ==
    \A w \in Workers :
        job[w] # NoJob =>
            /\ Len(CallsOf(w)) <= MaxAttempts
            /\ JobOver(w) => Len(CallsOf(w)) >= 1
            /\ \A i \in 1..Len(CallsOf(w)) :
                  CallsOf(w)[i] = "ok" => i = Len(CallsOf(w))
            /\ \A i \in 1..Len(trail[w]) :
                  IsCall(trail[w][i]) =>
                      \A k \in 1..(i - 1) : trail[w][k] = "err"
            /\ pc[w] = "call" => attempt[w] = Len(CallsOf(w)) + 1
            /\ pc[w] = "sleep" =>
                  /\ attempt[w] = Len(CallsOf(w))
                  /\ backoff[w] = Backoff(BaseDelayMS, MaxDelayMS, attempt[w])
            /\ \A i \in 1..Len(sleeps[w]) :
                  sleeps[w][i] = Backoff(BaseDelayMS, MaxDelayMS, i)
            /\ sleeps[w] # <<>> => sleeps[w][1] = BaseDelayMS

\* the only worker has exhausted the attempts of the first job, and is at
\* attempt 2 of the second job after a first sleep of BaseDelayMS
C22_Witness ==
    /\ threads = 1
    /\ ensureErr = {}
    /\ failInc = <<1, 0>>
    /\ job[1].pos = 2
    /\ pc[1] = "call"
    /\ attempt[1] = 2
    /\ trail[1] = <<"err">>
    /\ sleeps[1] = <<BaseDelayMS>>

\* worker v is not held up by anything but its own position: the step its
\* position calls for is possible, the gate needing only the ticker
CanProceed(v) ==
    /\ pc[v] = "range" => IF jobs # <<>> THEN ENABLED Dequeue(v)
                                         ELSE ENABLED Exit(v)
    /\ pc[v] = "admit" => IF tickBuf = 1 THEN ENABLED Admit(v)
                                         ELSE ENABLED TickerTick
    /\ pc[v] = "progress" => ENABLED Progress(v)
    /\ pc[v] = "call" => ENABLED CallOk(v)
    /\ pc[v] = "prepare" =>
          IF storeUp /\ safeTableName(job[v].symbol) \in tableExists
              THEN ENABLED PrepareOk(v)
              ELSE ENABLED PrepareErr(v)
    /\ pc[v] = "exec" =>
          IF records[v] = <<>> THEN ENABLED InsertDone(v)
          ELSE IF storeUp THEN ENABLED ExecRow(v)
          ELSE ENABLED ExecErr(v)

\* worker w is in time.Sleep(backoff)
Sleeping(w) == pc[w] = "sleep"

\* C23: while a worker sleeps in backoff its job is no longer in the queue,
\* every other worker can take the step its position calls for, a step of
\* another worker or of the ticker leaves the sleeper asleep, and the end of
\* the sleep changes neither the queue, nor the limiter, nor another worker.
C23_SleepIsLocal ==
    /\ [](\A w \in Workers :
            Sleeping(w) =>
                /\ \A i \in 1..Len(jobs) : jobs[i].pos # job[w].pos
                /\ \A v \in Started \ {w} : CanProceed(v))
    /\ [][\A w \in Workers :
            Sleeping(w) =>
                \/ /\ Sleeping(w)'
                   /\ UNCHANGED <<job[w], attempt[w], backoff[w], trail[w]>>
                \/ /\ pc'[w] = "call"
                   /\ UNCHANGED <<jobs, tickBuf, ticks, rows, counterVars>>
                   /\ \A v \in Workers \ {w} :
                         UNCHANGED <<pc[v], job[v], attempt[v], records[v]>>]_vars

\* one worker sleeps in backoff while the other, admitted on a later tick,
\* is writing its fetched records
C23_Witness ==
    \E w, v \in Workers :
        /\ Sleeping(w)
        /\ pc[v] = "exec"
        /\ records[v] # <<>>
        /\ job[v].pos > job[w].pos

\* len(appCfg.Symbols) * len(dates) is 0
EmptyTasks == symbols = <<>> \/ dates = <<>>

\* the run has ended normally and its summary reads 0, 0 and 0
EndedWithNothing ==
    /\ mainpc = "done"
    /\ ExitStatus = 0
    /\ \A w \in Started : pc[w] = "done"
    /\ successCount = 0 /\ failCount = 0 /\ totalTasks = 0

\* C24: with no symbol or no date the queue is empty and the task count 0;
\* main fills and closes the queue without waiting and goes on to start the
\* workers; every started worker can return at once and takes no job, no
\* tick and no progress number; nothing is written or counted; and under fair
\* scheduling the run that reached the pool ends normally with a summary of
\* 0 succeeded, 0 failed and 0 tasks.
C24_EmptyRun ==
    /\ [](EmptyTasks =>
            /\ jobs = <<>> /\ totalTasks = 0
            /\ currentTask = 0 /\ successCount = 0 /\ failCount = 0
            /\ \A t \in TableNames : rows[t] = {}
            /\ mainpc = "pool" => ENABLED StartPool
            /\ mainpc \in {"wait", "done"} =>
                  \A w \in Started : pc[w] \in {"range", "done"}
            /\ \A w \in Workers :
                  /\ pc[w] \in {"off", "range", "done"}
                  /\ job[w] = NoJob /\ admits[w] = 0 /\ trail[w] = <<>>
                  /\ pc[w] = "range" => ENABLED Exit(w))
    /\ [][(EmptyTasks /\ mainpc = "pool") => mainpc' = "wait"]_vars
    /\ (EmptyTasks /\ mainpc = "pool") ~> EndedWithNothing

\* a run with a symbol and no date has ended: its table was created, all
\* workers of the largest pool were started and have returned
C24_Witness ==
    /\ symbols # <<>> /\ dates = <<>>
    /\ threads = NumWorkers
    /\ tableExists # {}
    /\ EndedWithNothing

\* worker w's job has a call that returned candlesticks
Fetched(w) == \E i \in 1..Len(trail[w]) : trail[w][i] = "ok"

\* worker w's job ended with the last attempt's call failing
Exhausted(w) == job[w] # NoJob /\ trail[w] = AllErr(MaxAttempts)

\* C25: a job whose calls all failed holds no records and has made no insert;
\* no step of a job without a successful call changes a table, the failing
\* calls, the sleeps and the exhaustion included; a table changes only by the
\* insert of the next record of a job whose call succeeded; and a table has
\* rows only if some job was fetched.
C25_FailedJobWritesNothing ==
    /\ [](\A w \in Workers :
            /\ (job[w] # NoJob /\ ~Fetched(w)) => records[w] = <<>>
            /\ Exhausted(w) =>
                  /\ pc[w] = "range"
                  /\ ~Fetched(w)
                  /\ failInc[job[w].pos] = 1 /\ succInc[job[w].pos] = 0)
    /\ []((\E t \in TableNames : rows[t] # {}) =>
              \/ successCount >= 1
              \/ \E w \in Workers : pc[w] = "exec" /\ Fetched(w))
    /\ [][\A w \in Workers :
            (~Fetched(w) /\ ~Fetched(w)' /\ trail'[w] # trail[w]) =>
                rows' = rows /\ tableExists' = tableExists]_vars
    /\ [][rows' # rows =>
            \E w \in Workers :
                /\ pc[w] = "exec" /\ Fetched(w) /\ records[w] # <<>>
                /\ records'[w] = Tail(records[w])
                /\ LET t == safeTableName(job[w].symbol)
                   IN rows' = [rows EXCEPT
                                 ![t] = @ \cup {RowOf(Head(records[w]))}]]_vars

\* a job has exhausted its attempts while the table of its symbol holds the
\* rows of the other job, which was stored
C25_Witness ==
    \E w \in Workers :
        /\ Exhausted(w)
        /\ rows[safeTableName(job[w].symbol)] # {}
        /\ successCount = 1
        /\ failCount = 1

====
